---- MODULE Spec2Model ----
(***************************************************************************)
(* State-machine model of the linuxspi programmer backend of avrdude       *)
(* (src/avrdude/linuxspi.c): the port handling of linuxspi_open, the       *)
(* full-duplex exchange linuxspi_spi_duplex, the enable handshake          *)
(* linuxspi_initialize / linuxspi_program_enable, linuxspi_cmd, and        *)
(* linuxspi_chip_erase.  One calling context issues one operation at a     *)
(* time; pc is its position inside the operation in progress.              *)
(***************************************************************************)
EXTENDS Integers, Sequences, FiniteSets, TLC

(***************************************************************************)
(* Bounds of the model.                                                    *)
(***************************************************************************)
\* longest port string built from PortChars handed to linuxspi_open
MaxPortLen == 1
\* longest chip_erase_delay (microseconds) of a part description
MaxDelay == 2

(***************************************************************************)
(* Program constants.                                                      *)
(***************************************************************************)
\* while (tries < 65)
MaxTries == 65
\* linuxspi_cmd exchanges 4 bytes; cmd[4], res[4]
FrameLen == 4
\* null pointer: port == 0, p->op[...] == NULL
NULL == 0
\* terminating character of a C string
NUL == 0
\* return values
OK == 0
FAIL == -1
MISMATCH == -2
\* the descriptor open() returns when it succeeds (any value >= 0)
SomeFd == 3

\* characters the generated port strings are made of: '/'
PortChars == {47}
\* "unknown" as a NUL-terminated character array
Unknown == <<117, 110, 107, 110, 111, 119, 110, NUL>>

(***************************************************************************)
(* C strings: a character array holds the string up to its first NUL.      *)
(***************************************************************************)
RECURSIVE strcmpFrom(_, _, _)
\* strcmp(a, b) from position i on: 0 when equal, else the sign of the
\* first differing character
strcmpFrom(a, b, i) ==
    IF a[i] # b[i] THEN (IF a[i] < b[i] THEN -1 ELSE 1)
    ELSE IF a[i] = NUL THEN 0
    ELSE strcmpFrom(a, b, i + 1)

strcmp(a, b) == strcmpFrom(a, b, 1)

RECURSIVE strcpyFrom(_, _)
\* the characters strcpy writes: those of src from position i up to and
\* including the first NUL
strcpyFrom(src, i) ==
    IF src[i] = NUL THEN <<NUL>> ELSE <<src[i]>> \o strcpyFrom(src, i + 1)

\* strcpy(pgm->port, port): the string held by dst afterwards
strcpy(dst, src) == strcpyFrom(src, 1)

RECURSIVE SeqsUpTo(_, _)
SeqsUpTo(S, n) ==
    IF n = 0 THEN {<<>>}
    ELSE LET shorter == SeqsUpTo(S, n - 1)
         IN  shorter \cup {Append(s, c) : s \in {t \in shorter : Len(t) = n - 1}, c \in S}

\* the char* arguments linuxspi_open is called with: the null pointer, or a
\* pointer to a NUL-terminated array
PortArgs ==
    {[ptr |-> NULL, buf |-> <<NUL>>]} \cup
    {[ptr |-> 1, buf |-> b] :
        b \in {Append(s, NUL) : s \in SeqsUpTo(PortChars, MaxPortLen)}
              \cup {Unknown, SubSeq(Unknown, 1, 6) \o <<NUL>>,
                    SubSeq(Unknown, 1, 7) \o <<117, NUL>>}}

(***************************************************************************)
(* Frames, opcode templates and part descriptions.                         *)
(***************************************************************************)
FrameIdx == 0 .. (FrameLen - 1)

\* memset(cmd, 0, sizeof(cmd))
ZeroFrame == [i \in FrameIdx |-> 0]

\* the opcode templates the part descriptions point to; a template gives the
\* bytes of the frame that it sets
OpTable ==
    <<  (0 :> 172 @@ 1 :> 83),      \* program enable: AC 53 .. ..
        (0 :> 172 @@ 1 :> 128),     \* chip erase:     AC 80 .. ..
        (0 :> 172) >>               \* a program enable that sets byte 0 only

EnableOps == {NULL, 1, 3}
EraseOps == {NULL, 2}

\* avr_set_bits(op, cmd): the template's bytes are set, the others kept
\* (the callers never pass a null template)
avr_set_bits(op, cmd) ==
    IF op = NULL THEN cmd
    ELSE [i \in FrameIdx |-> IF i \in DOMAIN OpTable[op] THEN OpTable[op][i] ELSE cmd[i]]

Flags == {{}, {"AVRPART_HAS_TPI"}}

Parts ==
    [flags : Flags, pgm_enable : EnableOps, chip_erase : EraseOps,
     chip_erase_delay : 1 .. MaxDelay]

\* the frames a device shifts out during an exchange
Responses ==
    { (0 :> 0 @@ 1 :> 83 @@ 2 :> 83 @@ 3 :> 0),     \* echoes 0x53 in byte 2
      (0 :> 0 @@ 1 :> 83 @@ 2 :> 0 @@ 3 :> 0) }

\* a buffer nothing has written yet (unsigned char res[4];)
Uninit == [i \in FrameIdx |-> -1]

\* the frames raw commands are issued with
RawCmds ==
    { (0 :> 48 @@ 1 :> 0 @@ 2 :> 0 @@ 3 :> 0),
      (0 :> 172 @@ 1 :> 83 @@ 2 :> 0 @@ 3 :> 0) }

\* the values ioctl(SPI_IOC_MESSAGE(1)) can report for a transfer of len bytes
IoctlRets(len) == {-1, len - 1, len}

\* an int local that has not been assigned yet (int tries, rc; int ret)
NONE == 99

(***************************************************************************)
(* State.                                                                  *)
(***************************************************************************)
VARIABLES
    pc,             \* position of the calling context
    port,           \* pgm->port, the string it holds
    held,           \* descriptors of the device node the process holds open
    lastOp,         \* the operation called last (in progress unless pc = "idle")
    openArg,        \* the argument of the last linuxspi_open call
    part,           \* AVRPART *p of the operation
    rawArg,         \* the frame handed to linuxspi_cmd by the caller of the operation
    result,         \* return value of the operation
    diag,           \* diagnostics the operation has printed to stderr
    tries, rc,      \* locals of linuxspi_initialize
    initRet,        \* return value of linuxspi_initialize
    cmd, res,       \* cmd[4], res[4] of the function that calls pgm->cmd
    fd, ret,        \* locals of linuxspi_spi_duplex
    dxRet,          \* return value of linuxspi_spi_duplex
    dxCont,         \* caller of pgm->cmd: "pe", "ce" or "raw"
    log,            \* what the operation did on the bus, run-length encoded
    peCalls,        \* calls of linuxspi_program_enable
    initCalls,      \* calls of linuxspi_initialize
    anyFault,       \* an exchange of the operation failed in the transport
    xferAfterFault, \* an exchange was started after such a failure
    matchAt,        \* first enable attempt the device answered with the echo
    acceptAt        \* first enable attempt whose comparison found the echo

session == <<port, held, lastOp, openArg, part, rawArg, result, diag>>
locals == <<tries, rc, initRet, cmd, res, fd, ret, dxRet, dxCont>>
observed == <<log, peCalls, initCalls, anyFault, xferAfterFault, matchAt, acceptAt>>
locals_but_dxRet == <<tries, rc, initRet, cmd, res, fd, ret, dxCont>>
locals_of_calls == <<tries, rc, cmd, res, fd, ret, dxRet, dxCont>>
vars == <<pc, session, locals, observed>>

XferEv(tx, n) == [ev |-> "xfer", tx |-> tx, us |-> 0, n |-> n]
WaitEv(us) == [ev |-> "wait", tx |-> ZeroFrame, us |-> us, n |-> 1]

\* the log after one more exchange that transmits tx
LogXfer(l, tx) ==
    IF l # <<>> /\ l[Len(l)].ev = "xfer" /\ l[Len(l)].tx = tx
    THEN [l EXCEPT ![Len(l)].n = @ + 1]
    ELSE Append(l, XferEv(tx, 1))

Init ==
    /\ pc = "idle"
    /\ port = <<NUL>>
    /\ held = {}
    /\ lastOp = "none"
    /\ openArg = [ptr |-> NULL, buf |-> <<NUL>>]
    /\ part = CHOOSE p \in Parts : TRUE
    /\ rawArg = Uninit
    /\ result = NONE
    /\ diag = {}
    /\ tries = NONE /\ rc = NONE /\ initRet = NONE
    /\ cmd = Uninit /\ res = Uninit
    /\ fd = NONE /\ ret = NONE /\ dxRet = NONE
    /\ dxCont = "none"
    /\ log = <<>>
    /\ peCalls = 0 /\ initCalls = 0
    /\ anyFault = FALSE /\ xferAfterFault = FALSE
    /\ matchAt = 0 /\ acceptAt = 0

\* the stack frame of a function that is not running holds nothing
NoDuplexFrame == fd' = NONE /\ ret' = NONE /\ dxRet' = NONE
NoCmdFrame == cmd' = Uninit /\ res' = Uninit /\ dxCont' = "none" /\ NoDuplexFrame
NoInitFrame == tries' = NONE /\ rc' = NONE

\* a new operation starts: nothing done yet
NewCall(op) ==
    /\ pc = "idle"
    /\ lastOp' = op
    /\ initRet' = NONE
    /\ peCalls' = 0 /\ initCalls' = 0
    /\ anyFault' = FALSE /\ xferAfterFault' = FALSE
    /\ matchAt' = 0 /\ acceptAt' = 0

(***************************************************************************)
(* linuxspi_open, linuxspi_close.                                          *)
(***************************************************************************)
OpenRejects_EmptyToo(a) == a.ptr = NULL \/ a.buf[1] = NUL \/ strcmp(a.buf, Unknown) = 0

\* if (port == 0 || strcmp(port, "unknown") == 0)
OpenRejects(a) == a.ptr = NULL \/ strcmp(a.buf, Unknown) = 0

linuxspi_open(a) ==
    /\ NewCall("open")
    /\ openArg' = a
    /\ IF OpenRejects(a)
       THEN /\ diag' = {"No port specified"}
            /\ pc' = "exited"                       \* exit(1)
            /\ result' = NONE
            /\ UNCHANGED port
       ELSE /\ port' = strcpy(port, a.buf)
            /\ diag' = {}
            /\ result' = OK
            /\ pc' = "idle"
    /\ log' = <<>>
    /\ rawArg' = Uninit
    /\ UNCHANGED <<held, part, locals_of_calls>>

ClosePort_Cleared(p) == <<NUL>>

\* //do nothing: pgm->port after linuxspi_close
ClosePort(p) == p

\* //do nothing
linuxspi_close ==
    /\ NewCall("close")
    /\ pc' = "idle"
    /\ port' = ClosePort(port)
    /\ result' = NONE
    /\ diag' = {}
    /\ log' = <<>>
    /\ rawArg' = Uninit
    /\ UNCHANGED <<held, openArg, part, locals_of_calls>>

(***************************************************************************)
(* linuxspi_spi_duplex, reached through pgm->cmd = linuxspi_cmd.           *)
(***************************************************************************)
\* pgm->cmd(pgm, tx, res): linuxspi_cmd calls linuxspi_spi_duplex(pgm, tx, res, 4)
StartDuplex(caller, tx, l) ==
    /\ pc' = "dx_open"
    /\ dxCont' = caller
    /\ cmd' = tx
    /\ res' = Uninit
    /\ log' = LogXfer(l, tx)
    /\ xferAfterFault' = anyFault

\* where the caller of pgm->cmd goes on
AfterCmd(caller) ==
    CASE caller = "pe" -> "pe_ret"
      [] caller = "ce" -> "ce_wait"
      [] OTHER -> "raw_ret"

DuplexResult_NegativeOnly(r, len) == IF r < 0 THEN FAIL ELSE r

\* if (ret != len) return -1; return ret;
DuplexResult(r, len) == IF r # len THEN FAIL ELSE r

CloseFd_Forgotten(h, f) == h

\* close(fd)
CloseFd(h, f) == h \ {f}

\* int fd = open(pgm->port, O_RDWR); if (fd < 0) ... return -1;
DuplexOpen ==
    /\ pc = "dx_open"
    /\ \/ /\ fd' = SomeFd
          /\ held' = held \cup {SomeFd}
          /\ pc' = "dx_ioctl"
          /\ UNCHANGED <<dxRet, diag, anyFault>>
       \/ /\ fd' = FAIL
          /\ diag' = diag \cup {"Unable to open SPI port"}
          /\ dxRet' = FAIL
          /\ anyFault' = TRUE
          /\ pc' = AfterCmd(dxCont)
          /\ UNCHANGED held
    /\ UNCHANGED <<port, lastOp, openArg, part, rawArg, result, tries, rc, initRet, cmd, res,
                   ret, dxCont, log, peCalls, initCalls, xferAfterFault,
                   matchAt, acceptAt>>

\* int ret = ioctl(fd, SPI_IOC_MESSAGE(1), &tr): the exchange fills rx when it
\* is complete; when it is not, rx holds whatever the driver left there
DuplexIoctl ==
    /\ pc = "dx_ioctl"
    /\ \E r \in IoctlRets(FrameLen) :
       \E rx \in (IF r = FrameLen THEN Responses ELSE Responses \cup {res}) :
          /\ ret' = r
          /\ res' = rx
          /\ anyFault' = (anyFault \/ r # FrameLen)
          /\ matchAt' = IF dxCont = "pe" /\ matchAt = 0 /\ r = FrameLen /\ rx[2] = cmd[1]
                        THEN peCalls ELSE matchAt
    /\ pc' = "dx_close"
    /\ UNCHANGED <<session, tries, rc, initRet, cmd, fd, dxRet, dxCont, log, peCalls,
                   initCalls, xferAfterFault, acceptAt>>

\* close(fd); if (ret != len) ... return -1; return ret;
DuplexClose ==
    /\ pc = "dx_close"
    /\ held' = CloseFd(held, fd)
    /\ dxRet' = DuplexResult(ret, FrameLen)
    /\ diag' = IF ret # FrameLen
               THEN diag \cup {"Unable to send SPI message"} ELSE diag
    /\ pc' = AfterCmd(dxCont)
    /\ UNCHANGED <<port, lastOp, openArg, part, rawArg, result, locals_but_dxRet, observed>>

(***************************************************************************)
(* linuxspi_cmd called directly (raw command).                             *)
(***************************************************************************)
\* return linuxspi_spi_duplex(pgm, cmd, res, 4);
linuxspi_cmd(c) ==
    /\ NewCall("cmd")
    /\ rawArg' = c
    /\ StartDuplex("raw", c, <<>>)
    /\ result' = NONE
    /\ diag' = {}
    /\ UNCHANGED <<port, held, openArg, part, tries, rc, fd, ret, dxRet>>

CmdResult_ZeroOnSuccess(d) == IF d = FAIL THEN FAIL ELSE OK

\* return linuxspi_spi_duplex(...): the value of the exchange is handed on
CmdResult(d) == d

CmdReturn ==
    /\ pc = "raw_ret"
    /\ result' = CmdResult(dxRet)
    /\ pc' = "idle"
    /\ NoCmdFrame
    /\ UNCHANGED <<port, held, lastOp, openArg, part, rawArg, diag, tries, rc, initRet, observed>>

(***************************************************************************)
(* linuxspi_initialize and linuxspi_program_enable.                        *)
(***************************************************************************)
HasTPI_Never(p) == FALSE

\* p->flags & AVRPART_HAS_TPI
HasTPI(p) == "AVRPART_HAS_TPI" \in p.flags

\* p->op[AVR_OP_PGM_ENABLE] == NULL
EnableOpMissing(p) == p.pgm_enable = NULL

EnableCmd_NoMemset(p, old) == avr_set_bits(p.pgm_enable, old)

\* memset(cmd, 0, sizeof(cmd)); avr_set_bits(p->op[AVR_OP_PGM_ENABLE], cmd);
\* old is what the bytes of cmd hold when the function is entered
EnableCmd(p, old) == avr_set_bits(p.pgm_enable, ZeroFrame)

BreakOn_ErrorOnly(r) == r = FAIL

BreakOn_SuccessOnly(r) == r = OK

\* if (rc == 0 || rc == -1) break;
BreakOn(r) == r = OK \/ r = FAIL

LoopContinues_OneMore(t) == t <= MaxTries

\* while (tries < 65)
LoopContinues(t) == t < MaxTries

\* the values a read of buf[i] can yield: the byte stored there, or any byte
\* when nothing has been stored
ReadByte(buf, i) == IF buf[i] = Uninit[i] THEN {0, 83} ELSE {buf[i]}

\* if (res[2] != cmd[1]) return -2; return 0;
EchoResult(r2, c1) == IF r2 # c1 THEN MISMATCH ELSE OK

\* return from linuxspi_initialize with value v: to the caller of the
\* operation, or into linuxspi_chip_erase
InitReturn(v) ==
    /\ initRet' = v
    /\ NoInitFrame
    /\ IF lastOp = "enable"
       THEN result' = v /\ pc' = "idle"
       ELSE result' = result /\ pc' = "ce_ret"

\* the operation "enable": pgm->initialize(pgm, p)
linuxspi_initialize(p) ==
    /\ NewCall("enable")
    /\ part' = p
    /\ pc' = "init_entry"
    /\ result' = NONE
    /\ diag' = {}
    /\ log' = <<>>
    /\ rawArg' = Uninit
    /\ UNCHANGED <<port, held, openArg, locals_of_calls>>

\* if (p->flags & AVRPART_HAS_TPI) ... return -1;  tries = 0;
InitializeEntry ==
    /\ pc = "init_entry"
    /\ initCalls' = initCalls + 1
    /\ IF HasTPI(part)
       THEN /\ diag' = diag \cup {"does not support TPI"}
            /\ InitReturn(FAIL)
       ELSE /\ tries' = 0
            /\ pc' = "pe_entry"
            /\ UNCHANGED <<diag, initRet, result, rc>>
    /\ UNCHANGED <<port, held, lastOp, openArg, part, rawArg, cmd, res, fd, ret, dxRet,
                   dxCont, log, peCalls, anyFault, xferAfterFault, matchAt,
                   acceptAt>>

\* rc = pgm->program_enable(pgm, p), up to the call of pgm->cmd
ProgramEnable ==
    /\ pc = "pe_entry"
    /\ peCalls' = peCalls + 1
    /\ IF EnableOpMissing(part)
       THEN /\ diag' = diag \cup {"program enable instruction not defined"}
            /\ rc' = FAIL
            /\ pc' = "init_rc"
            /\ UNCHANGED <<cmd, res, dxCont, log, xferAfterFault>>
       ELSE /\ StartDuplex("pe", EnableCmd(part, cmd), log)
            /\ UNCHANGED <<diag, rc>>
    /\ UNCHANGED <<port, held, lastOp, openArg, part, rawArg, result, tries, initRet, fd, ret,
                   dxRet, initCalls, anyFault, matchAt, acceptAt>>

\* linuxspi_program_enable after pgm->cmd has returned (its return value is
\* not looked at): if (res[2] != cmd[1]) return -2; return 0;
ProgramEnableCheck ==
    /\ pc = "pe_ret"
    /\ \E r2 \in ReadByte(res, 2) :
          /\ rc' = EchoResult(r2, cmd[1])
          /\ acceptAt' = IF acceptAt = 0 /\ r2 = cmd[1] THEN peCalls ELSE acceptAt
    /\ pc' = "init_rc"
    /\ NoCmdFrame
    /\ UNCHANGED <<session, tries, initRet, log,
                   peCalls, initCalls, anyFault, xferAfterFault, matchAt>>

\* if (rc == 0 || rc == -1) break; tries++; } while (tries < 65);
\* if (rc) { ... return -1; } return 0;
InitializeLoop ==
    /\ pc = "init_rc"
    /\ IF ~BreakOn(rc) /\ LoopContinues(tries + 1)
       THEN /\ tries' = tries + 1
            /\ pc' = "pe_entry"
            /\ UNCHANGED <<diag, initRet, result, rc>>
       ELSE IF rc # 0
            THEN diag' = diag \cup {"AVR device not responding"} /\ InitReturn(FAIL)
            ELSE diag' = diag /\ InitReturn(OK)
    /\ UNCHANGED <<port, held, lastOp, openArg, part, rawArg, cmd, res, fd, ret, dxRet,
                   dxCont, observed>>

(***************************************************************************)
(* linuxspi_chip_erase.                                                    *)
(***************************************************************************)
EraseOpMissing_ChecksEnable(p) == p.pgm_enable = NULL

\* p->op[AVR_OP_CHIP_ERASE] == NULL
EraseOpMissing(p) == p.chip_erase = NULL

UsleepArg_Fixed(p) == 1

\* usleep(p->chip_erase_delay)
UsleepArg(p) == p.chip_erase_delay

\* pgm->initialize(pgm, p); return 0;
ChipEraseResult(initialized) == OK

\* the operation "chip_erase", up to the call of pgm->cmd
linuxspi_chip_erase(p) ==
    /\ NewCall("chip_erase")
    /\ part' = p
    /\ IF EraseOpMissing(p)
       THEN /\ diag' = {"chip erase instruction not defined"}
            /\ result' = FAIL
            /\ pc' = "idle"
            /\ log' = <<>>
            /\ UNCHANGED <<cmd, res, dxCont>>
       ELSE /\ StartDuplex("ce", avr_set_bits(p.chip_erase, ZeroFrame), <<>>)
            /\ result' = NONE
            /\ diag' = {}
    /\ rawArg' = Uninit
    /\ UNCHANGED <<port, held, openArg, tries, rc, fd, ret, dxRet>>

\* usleep(p->chip_erase_delay); then pgm->initialize(pgm, p) is called
ChipEraseWait ==
    /\ pc = "ce_wait"
    /\ log' = Append(log, WaitEv(UsleepArg(part)))
    /\ pc' = "init_entry"
    /\ NoDuplexFrame
    /\ UNCHANGED <<session, tries, rc, initRet, cmd, res, dxCont, peCalls, initCalls, anyFault,
                   xferAfterFault, matchAt, acceptAt>>

\* return 0;
ChipEraseReturn ==
    /\ pc = "ce_ret"
    /\ result' = ChipEraseResult(initRet)
    /\ pc' = "idle"
    /\ NoCmdFrame
    /\ UNCHANGED <<port, held, lastOp, openArg, part, rawArg, diag, tries, rc, initRet, observed>>

(***************************************************************************)
(* The backend under any caller.                                           *)
(***************************************************************************)
Next ==
    \/ \E a \in PortArgs : linuxspi_open(a)
    \/ linuxspi_close
    \/ \E c \in RawCmds : linuxspi_cmd(c)
    \/ CmdReturn
    \/ \E p \in Parts : linuxspi_initialize(p)
    \/ InitializeEntry
    \/ ProgramEnable
    \/ ProgramEnableCheck
    \/ InitializeLoop
    \/ \E p \in Parts : linuxspi_chip_erase(p)
    \/ ChipEraseWait
    \/ ChipEraseReturn
    \/ DuplexOpen
    \/ DuplexIoctl
    \/ DuplexClose

Spec == Init /\ [][Next]_vars

(***************************************************************************)
(* Properties.                                                             *)
(***************************************************************************)
\* the operation op has returned to its caller
Returned(op) == pc = "idle" /\ lastOp = op

\* the operation op is running or has returned
Current(op) == lastOp = op /\ pc # "exited"

RECURSIVE Transfers(_)
\* the number of exchanges a log holds
Transfers(l) ==
    IF l = <<>> THEN 0
    ELSE (IF Head(l).ev = "xfer" THEN Head(l).n ELSE 0) + Transfers(Tail(l))

\* the part can be handshaken with: no TPI flag, and an ENABLE template
Handshakes(p) == "AVRPART_HAS_TPI" \notin p.flags /\ p.pgm_enable # NULL

\* C1: when the device mismatches on attempts 1..k-1 and echoes on attempt k
\* (1 <= k <= 65) and no exchange faults, enable returns success after
\* exactly k attempts and k transfers, and no transfer follows the echo.
C1_EnableSucceedsAtFirstEcho ==
    (Current("enable") /\ ~anyFault /\ matchAt \in 1 .. 65) =>
        /\ Transfers(log) = matchAt
        /\ peCalls = matchAt
        /\ pc = "idle" => result = 0

C1_Witness ==
    /\ Returned("enable") /\ ~anyFault /\ matchAt = 65
    /\ result = 0 /\ Transfers(log) = 65

\* C2: when every exchange completes without a transport fault and with a
\* mismatching echo, enable makes exactly 65 attempts (65 transfers) and
\* fails with "AVR device not responding".
C2_EnableGivesUpAfter65 ==
    (Returned("enable") /\ Handshakes(part) /\ ~anyFault /\ matchAt = 0) =>
        /\ Transfers(log) = 65
        /\ peCalls = 65
        /\ result = -1
        /\ "AVR device not responding" \in diag

C2_Witness ==
    /\ Returned("enable") /\ Handshakes(part) /\ ~anyFault /\ matchAt = 0
    /\ Transfers(log) = 65 /\ result = -1

\* C3: a transport fault in an exchange of an enable call ends the handshake
\* at once: no exchange is started after it, and enable fails.
C3_FaultAbortsEnable ==
    (Current("enable") /\ anyFault) =>
        /\ ~xferAfterFault
        /\ pc = "idle" => result = -1

\* C4: chip_erase returns what its re-enable returned.
C4_EraseResultIsReenableResult ==
    (Returned("chip_erase") /\ initCalls > 0) => result = initRet

\* the bus activity of linuxspi_initialize on part p when the comparison of
\* attempt a is the first to find the echo (a = 0: none does)
EnableXfers(p, a) ==
    IF ~Handshakes(p) THEN 0 ELSE IF a > 0 THEN a ELSE 65

EnableLog(p, a) ==
    IF EnableXfers(p, a) = 0 THEN <<>>
    ELSE <<XferEv(avr_set_bits(p.pgm_enable, ZeroFrame), EnableXfers(p, a))>>

EraseLog(p) ==
    <<XferEv(avr_set_bits(p.chip_erase, ZeroFrame), 1), WaitEv(p.chip_erase_delay)>>

\* C5: a chip_erase on a part with an erase template does, in this order, one
\* erase transfer, one wait of the part's chip_erase_delay, and then the
\* transfers enable does under the same responses; at no moment does an
\* enable transfer precede the wait or an erase transfer follow it.
C5_EraseThenWaitThenEnable ==
    /\ Returned("enable") => log = EnableLog(part, acceptAt)
    /\ (Returned("chip_erase") /\ part.chip_erase # NULL) =>
            log = EraseLog(part) \o EnableLog(part, acceptAt)
    /\ (Current("chip_erase") /\ log # <<>>) =>
            /\ Len(log) <= 3
            /\ log[1] = EraseLog(part)[1]
            /\ Len(log) >= 2 => log[2] = EraseLog(part)[2]
            /\ Len(log) = 3 =>
                    /\ log[3].ev = "xfer"
                    /\ log[3].tx = avr_set_bits(part.pgm_enable, ZeroFrame)

C5_Witness ==
    /\ Returned("chip_erase") /\ part.chip_erase # NULL
    /\ part.chip_erase_delay = 2
    /\ Len(log) = 3 /\ log[1].n = 1 /\ log[2].us = 2 /\ log[3].n = 3

\* the string a port argument holds
IsString(a, str) == a.ptr # NULL /\ a.buf = str

\* C6 as stated: open("") and open("unknown") end the program, every other
\* port is stored as given and open returns 0.
C6_OpenAsStated ==
    lastOp = "open" =>
        IF openArg.ptr = NULL \/ IsString(openArg, <<NUL>>) \/ IsString(openArg, Unknown)
        THEN pc = "exited"
        ELSE pc = "idle" /\ result = 0 /\ port = openArg.buf

\* C6, amended: open with a null port pointer or with "unknown" ends the
\* program and leaves the stored port as it was; open with any other string,
\* the empty one included, returns 0 and stores exactly that string.
C6_OpenRejectsNullAndUnknown ==
    /\ [](lastOp = "open" =>
            IF openArg.ptr = NULL \/ IsString(openArg, Unknown)
            THEN pc = "exited" /\ port # Unknown
            ELSE pc = "idle" /\ result = 0 /\ port = openArg.buf)
    /\ [][pc' = "exited" => port' = port]_vars

C6_Witness ==
    /\ lastOp = "open" /\ IsString(openArg, <<NUL>>)
    /\ pc = "idle" /\ result = 0 /\ port = <<NUL>>

\* C7: enable on a part with the TPI flag fails with "does not support TPI"
\* without a handshake attempt or a transfer, whatever its templates are.
C7_TpiPartIsRefused ==
    (Current("enable") /\ "AVRPART_HAS_TPI" \in part.flags) =>
        /\ log = <<>>
        /\ peCalls = 0
        /\ pc = "idle" => (result = -1 /\ diag = {"does not support TPI"})

C7_Witness ==
    /\ Returned("enable") /\ "AVRPART_HAS_TPI" \in part.flags
    /\ part.pgm_enable # NULL /\ result = -1 /\ log = <<>>

\* C8: chip_erase on a part without an erase template fails with "chip erase
\* instruction not defined" and does no transfer, no wait and no re-enable.
C8_NoEraseTemplate ==
    (lastOp = "chip_erase" /\ part.chip_erase = NULL) =>
        /\ pc = "idle"
        /\ result = -1
        /\ diag = {"chip erase instruction not defined"}
        /\ log = <<>>
        /\ initCalls = 0 /\ peCalls = 0

C8_Witness ==
    /\ Returned("chip_erase") /\ part.chip_erase = NULL /\ Handshakes(part)
    /\ result = -1 /\ log = <<>>

\* linuxspi_spi_duplex has just returned to its caller
DuplexReturned == pc \in {"pe_ret", "ce_wait", "raw_ret"}

\* C9: a duplex of len bytes returns len or -1, and returns -1 whenever the
\* exchange reported another count than len, a negative one included.
C9_AllOrError ==
    /\ DuplexReturned =>
            /\ dxRet \in {4, -1}
            /\ dxRet = 4 <=> ret = 4
            /\ fd # -1 => ret \in IoctlRets(4)
    /\ Returned("cmd") => result \in {4, -1}

C9_Witness ==
    DuplexReturned /\ ret = 3 /\ dxRet = -1

\* C10: the device node is held only inside a duplex call, between its open
\* and its close: not when the open failed, not after the call has returned,
\* and so not between operations.
C10_NodeReleased ==
    /\ pc \notin {"dx_ioctl", "dx_close"} => held = {}
    /\ fd = -1 => held = {}

C10_Witness ==
    /\ Returned("chip_erase") /\ held = {}
    /\ {"Unable to open SPI port", "Unable to send SPI message"} \subseteq diag

\* C11: a raw command does exactly one exchange, of the frame its caller gave
\* and nothing else; it returns 4 when the exchange is complete and -1 when
\* the transport fails, whatever the device answers: no retry, no look at
\* the echo.
C11_RawCommandIsOneExchange ==
    Current("cmd") =>
        /\ log = <<XferEv(rawArg, 1)>>
        /\ peCalls = 0 /\ initCalls = 0
        /\ pc = "raw_ret" => (dxRet = 4 <=> (fd # -1 /\ ret = 4))
        /\ pc = "idle" => result = (IF anyFault THEN -1 ELSE 4)

C11_Witness ==
    /\ Returned("cmd") /\ result = 4
    /\ rawArg = (0 :> 172 @@ 1 :> 83 @@ 2 :> 0 @@ 3 :> 0)
    /\ log = <<XferEv(rawArg, 1)>>

\* a linuxspi_open call has stored a port
PortStored == openArg.ptr # NULL /\ ~OpenRejects(openArg)

\* C12 as stated: once open has stored a port, no later step of the session
\* changes it: the port is set once.
C12_PortSetOnce ==
    [][PortStored => port' = port]_vars

\* C12, amended: enable, chip_erase, raw commands and close, succeeding or
\* failing, never change the stored port; the only step that changes it is a
\* linuxspi_open call that accepts its argument, and it stores that argument
\* (a later open call replaces the port of an earlier one).
C12_OnlyOpenWritesPort ==
    [][port' # port =>
            /\ pc = "idle" /\ pc' = "idle"
            /\ lastOp' = "open"
            /\ port' = openArg'.buf]_vars

C12_Witness ==
    /\ Returned("chip_erase") /\ PortStored
    /\ port = <<47, NUL>> /\ Transfers(log) = 66 /\ anyFault

\* C13: enable on a part without an ENABLE template (and without the TPI
\* flag) fails on the first handshake attempt: one program_enable call, no
\* transfer, no retry.
C13_NoEnableTemplate ==
    (Current("enable") /\ "AVRPART_HAS_TPI" \notin part.flags /\ part.pgm_enable = NULL) =>
        /\ log = <<>>
        /\ peCalls <= 1
        /\ pc = "idle" =>
                /\ peCalls = 1
                /\ result = -1
                /\ "program enable instruction not defined" \in diag

C13_Witness ==
    /\ Returned("enable") /\ "AVRPART_HAS_TPI" \notin part.flags /\ part.pgm_enable = NULL
    /\ part.chip_erase # NULL /\ peCalls = 1 /\ result = -1 /\ log = <<>>

\* C14: enable returns success only when an exchange of the same call was
\* complete and its response carried the echo (response[2] = cmd[1]).
C14_SuccessNeedsEcho ==
    (Returned("enable") /\ result = 0) => matchAt > 0

\* C15: when the erase transfer of chip_erase fails in the transport,
\* chip_erase stops there: no wait, no re-enable, and it fails.
C15_EraseFaultAborts ==
    (Current("chip_erase") /\ anyFault /\ peCalls = 0) =>
        /\ Len(log) <= 1
        /\ initCalls = 0
        /\ pc = "idle" => result = -1

\* a step that is a linuxspi_close call
CloseStep == pc = "idle" /\ lastOp' = "close"

\* C16: close does nothing: it issues no transfer, opens no device node and
\* leaves the stored port and the rest of the session as they were, and it
\* returns at once.
C16_CloseDoesNothing ==
    /\ [](lastOp = "close" =>
            /\ pc = "idle"
            /\ log = <<>> /\ held = {} /\ diag = {}
            /\ peCalls = 0 /\ initCalls = 0)
    /\ [][CloseStep =>
            /\ port' = port /\ held' = held
            /\ openArg' = openArg /\ part' = part
            /\ pc' = "idle"]_vars

C16_Witness ==
    /\ Returned("close") /\ PortStored /\ port = <<47, NUL>>
    /\ log = <<>> /\ held = {}

\* an operation is running
Running == pc \notin {"idle", "exited"}

\* a step of the running operation
Step ==
    \/ CmdReturn
    \/ InitializeEntry
    \/ ProgramEnable
    \/ ProgramEnableCheck
    \/ InitializeLoop
    \/ ChipEraseWait
    \/ ChipEraseReturn
    \/ DuplexOpen
    \/ DuplexIoctl
    \/ DuplexClose

\* the code is synchronous: an operation that has been called keeps running
FairSpec == Spec /\ WF_vars(Step)

\* the steps a handshake that is in attempt tries + 1 has left, at most: six
\* per attempt of the 65, and the return
AttemptsLeft == 1 + (65 - tries) * 6

\* the steps linuxspi_initialize has left at its entry, at most
EnableBudget == 1 + 65 * 6 + 7

DuplexRank ==
    CASE pc = "dx_open" -> 3
      [] pc = "dx_ioctl" -> 2
      [] pc = "dx_close" -> 1
      [] OTHER -> 0

\* an upper bound of the number of steps the running operation has left
Variant ==
    CASE ~Running -> 0
      [] pc \in {"ce_ret", "raw_ret"} -> 1
      [] pc = "init_entry" -> EnableBudget
      [] pc = "ce_wait" -> EnableBudget + 1
      [] pc = "pe_entry" -> AttemptsLeft + 6
      [] pc = "pe_ret" -> AttemptsLeft + 2
      [] pc = "init_rc" -> AttemptsLeft + 1
      [] OTHER ->
            CASE dxCont = "pe" -> AttemptsLeft + 2 + DuplexRank
              [] dxCont = "ce" -> EnableBudget + 1 + DuplexRank
              [] OTHER -> 1 + DuplexRank

\* C17: an enable call ends after at most 65 transfers and a chip_erase call
\* after at most 66, whatever the transport does and whatever the part is:
\* the transfers stay within these numbers, a running operation can always
\* take its next step, every step lowers a bound on the steps left, and so
\* every operation that was called returns.
C17_OperationsTerminate ==
    /\ [](Current("enable") => Transfers(log) <= 65)
    /\ [](Current("chip_erase") => Transfers(log) <= 66)
    /\ [](Running => (Variant > 0 /\ ENABLED Step))
    /\ [][Running => Variant' < Variant]_vars
    /\ [](Running => <>(pc = "idle"))

C17_Witness ==
    /\ Returned("chip_erase") /\ Transfers(log) = 66
    /\ "AVR device not responding" \in diag

\* the frame a template builds from an all-zero frame: the bytes it sets,
\* and 0 elsewhere
Built(op) == [i \in 0 .. 3 |-> IF i \in DOMAIN OpTable[op] THEN OpTable[op][i] ELSE 0]

\* the transfers of the handshake in a log: all of the log of an enable call,
\* what follows the erase transfer and the wait in the log of a chip_erase
HandshakeLog == IF lastOp = "chip_erase" THEN SubSeq(log, 3, Len(log)) ELSE log

\* C18: all handshake attempts of an enable call transmit one and the same
\* frame, the ENABLE template applied to an all-zero frame, whatever the
\* earlier attempts were answered; the template AC 53 gives AC 53 00 00.
C18_SameEnableFrame ==
    ((Current("enable") \/ Current("chip_erase")) /\ HandshakeLog # <<>>) =>
        /\ Len(HandshakeLog) = 1
        /\ HandshakeLog[1].ev = "xfer"
        /\ HandshakeLog[1].n = peCalls
        /\ HandshakeLog[1].tx = Built(part.pgm_enable)
        /\ part.pgm_enable = 1 =>
                HandshakeLog[1].tx = (0 :> 172 @@ 1 :> 83 @@ 2 :> 0 @@ 3 :> 0)

C18_Witness ==
    /\ Returned("enable") /\ part.pgm_enable = 1 /\ anyFault /\ matchAt = 3
    /\ log = <<XferEv((0 :> 172 @@ 1 :> 83 @@ 2 :> 0 @@ 3 :> 0), 3)>>

====
